---- MODULE Spec2Model ----
(***************************************************************************)
(* Model of hyper's src/service/util.rs: the ServiceFn adapter returned by *)
(* service_fn, and the ServiceFns dictionary of adapters.                  *)
(*                                                                         *)
(* An Option<T> is a sequence of length at most one: None is <<>> and      *)
(* Some(x) is <<x>>.  A Result is a record [ok, v]: Ok(resp) carries a     *)
(* response record [body], Err(e) carries an error record [msg, boxed].    *)
(***************************************************************************)
EXTENDS Integers, Sequences, FiniteSets

\* ------------------------------------------------------------------ bounds
NumKeys == 2
MaxCalls == 2

Keys == 1..NumKeys
NoKey == 0

\* Requests are identified by their path.
Paths == {"/foo", "/bar"}
NoReq == "-"

None == <<>>
Some(x) == <<x>>

Ok(body) == [ok |-> TRUE, v |-> [body |-> body]]
Err(e) == [ok |-> FALSE, v |-> e]

\* ------------------------------------------------- the wrapped callable F
\* A callable value is its code (kind) plus the state it captured by value.
\*   echo : returns the request's path as the response body
\*   fail : fails with an error of its own (unboxed) error type
\*   once : an FnMut that answers "first" once and "again" afterwards
Stateless == {[kind |-> "echo", first |-> FALSE], [kind |-> "fail", first |-> FALSE]}
Stateful == {[kind |-> "once", first |-> TRUE], [kind |-> "once", first |-> FALSE]}
Callables == Stateless \cup Stateful
NoFn == [kind |-> "none", first |-> FALSE]

\* f(req): the future's output, the callable after the call (FnMut may
\* update what it captured), and the invocation appended to the world's log.
Invoke(f, req, lg) ==
  [ f |-> IF f.kind = "once" THEN [f EXCEPT !.first = FALSE] ELSE f,
    out |-> CASE f.kind = "echo" -> Ok(req)
              [] f.kind = "fail" -> Err([msg |-> req, boxed |-> FALSE])
              [] OTHER -> Ok(IF f.first THEN "first" ELSE "again"),
    log |-> Append(lg, req) ]

\* E: Into<Box<dyn StdError + Send + Sync>>: boxing of a concrete error; a
\* value that already is the boxed type converts to itself.
Convert(e) == IF e.boxed THEN e ELSE [e EXCEPT !.boxed = TRUE]

\* ------------------------------------------------------------- ServiceFn
service_fn(f) == [f |-> f]

ServiceFn_call_rewrite(sf, req, lg) ==
  LET r == Invoke(sf.f, "/foo", lg)
  IN [sf |-> [f |-> r.f], fut |-> [out |-> r.out, done |-> FALSE], log |-> r.log]

ServiceFn_call_boxing(sf, req, lg) ==
  LET r == Invoke(sf.f, req, lg)
      o == IF r.out.ok THEN r.out ELSE Err(Convert(r.out.v))
  IN [sf |-> [f |-> r.f], fut |-> [out |-> o, done |-> FALSE], log |-> r.log]

ServiceFn_call_retry(sf, req, lg) ==
  LET r1 == Invoke(sf.f, req, lg)
      r == IF r1.out.ok THEN r1 ELSE Invoke(r1.f, req, r1.log)
  IN [sf |-> [f |-> r.f], fut |-> [out |-> r.out, done |-> FALSE], log |-> r.log]

\* call(&mut self, req) = (self.f)(req): the adapter after the call, the
\* future it returns (not yet driven) and the world's invocation log.
ServiceFn_call(sf, req, lg) ==
  LET r == Invoke(sf.f, req, lg)
  IN [sf |-> [f |-> r.f], fut |-> [out |-> r.out, done |-> FALSE], log |-> r.log]

ServiceFn_clone_default(sf) == [f |-> [kind |-> "echo", first |-> FALSE]]

ServiceFn_clone(sf) == [f |-> sf.f]

Adapters == {service_fn(f) : f \in Callables}

\* ------------------------------------------------------------ ServiceFns
ServiceFns_new == [k \in Keys |-> None]

ServiceFns_add_keep_first(m, key, a) ==
  IF m[key] = None THEN [m EXCEPT ![key] = Some(a)] ELSE m

ServiceFns_add_clear(m, key, a) ==
  [k \in Keys |-> IF k = key THEN Some(a) ELSE None]

ServiceFns_add_collide(m, key, a) ==
  [k \in Keys |-> IF k = key \/ m[k] # None THEN Some(a) ELSE None]

\* self.fns.insert(key, serviceFn)
ServiceFns_add(m, key, a) == [m EXCEPT ![key] = Some(a)]

ServiceFns_get_or_default(m, key) ==
  IF m[key] = None THEN Some(service_fn([kind |-> "echo", first |-> FALSE])) ELSE m[key]

ServiceFns_get_any(m, key) ==
  IF \E k \in Keys : m[k] # None
  THEN m[CHOOSE k \in Keys : m[k] # None /\ \A j \in Keys : m[j] # None => k <= j]
  ELSE None

\* self.fns.get(key)
ServiceFns_get(m, key) == m[key]

\* ------------------------------------------------------------------ state
VARIABLES
  fns,      \* the ServiceFns dictionary: key -> Option<ServiceFn>
  svc,      \* Option: the adapter the runtime built with service_fn
  dup,      \* Option: the clone of svc
  fut,      \* Option: the future the last call returned, [out, done]
  log,      \* the requests the wrapped callables were invoked with, in order
  last,     \* the last API call: its name, arguments and returned value
  lastReg,  \* history: the adapter most recently passed to add, per key
  orig,     \* history: the adapter dup was cloned from, as it was then
  calls     \* history: the requests passed to call, in order

vars == <<fns, svc, dup, fut, log, last, lastReg, orig, calls>>

Op(name, key, val, req, f) ==
  [op |-> name, key |-> key, val |-> val, req |-> req, f |-> f]

Init ==
  /\ fns = ServiceFns_new
  /\ svc = None
  /\ dup = None
  /\ fut = None
  /\ log = <<>>
  /\ last = Op("new", NoKey, None, NoReq, NoFn)
  /\ lastReg = [k \in Keys |-> None]
  /\ orig = None
  /\ calls = <<>>

\* ---------------------------------------------------------------- actions
\* let svc = service_fn(f);
New(f) ==
  /\ svc' = Some(service_fn(f))
  /\ last' = Op("service_fn", NoKey, None, NoReq, f)
  /\ UNCHANGED <<fns, dup, fut, log, lastReg, orig, calls>>

\* fut = svc.call(req);
Call(req) ==
  /\ svc # None
  /\ Len(calls) < MaxCalls
  /\ LET r == ServiceFn_call(svc[1], req, log)
     IN /\ svc' = Some(r.sf)
        /\ fut' = Some(r.fut)
        /\ log' = r.log
  /\ calls' = Append(calls, req)
  /\ last' = Op("call", NoKey, None, req, svc[1].f)
  /\ UNCHANGED <<fns, dup, lastReg, orig>>

\* dup = svc.clone();
Clone ==
  /\ svc # None
  /\ dup' = Some(ServiceFn_clone(svc[1]))
  /\ orig' = svc
  /\ last' = Op("clone", NoKey, None, NoReq, svc[1].f)
  /\ UNCHANGED <<fns, svc, fut, log, lastReg, calls>>

\* fut = dup.call(req);
CallDup(req) ==
  /\ dup # None
  /\ Len(calls) < MaxCalls
  /\ LET r == ServiceFn_call(dup[1], req, log)
     IN /\ dup' = Some(r.sf)
        /\ fut' = Some(r.fut)
        /\ log' = r.log
  /\ calls' = Append(calls, req)
  /\ last' = Op("calldup", NoKey, None, req, dup[1].f)
  /\ UNCHANGED <<fns, svc, lastReg, orig>>

\* The runtime drives the returned future to completion.
Poll ==
  /\ fut # None
  /\ ~fut[1].done
  /\ fut' = Some([fut[1] EXCEPT !.done = TRUE])
  /\ UNCHANGED <<fns, svc, dup, log, last, lastReg, orig, calls>>

\* fns.add(key, a): needs &mut self, so no reference returned by get is live.
\* add returns nothing; last.val keeps the entry the insert displaced.
Add(key, a) ==
  /\ fns' = ServiceFns_add(fns, key, a)
  /\ lastReg' = [lastReg EXCEPT ![key] = Some(a)]
  /\ last' = Op("add", key, fns[key], NoReq, a.f)
  /\ UNCHANGED <<svc, dup, fut, log, orig, calls>>

GetTake(key) ==
  /\ last' = Op("get", key, ServiceFns_get(fns, key), NoReq, NoFn)
  /\ fns' = [fns EXCEPT ![key] = None]
  /\ UNCHANGED <<svc, dup, fut, log, lastReg, orig, calls>>

\* r = fns.get(key): takes &self and returns Option<&ServiceFn>.
Get(key) ==
  /\ last' = Op("get", key, ServiceFns_get(fns, key), NoReq, NoFn)
  /\ UNCHANGED <<fns, svc, dup, fut, log, lastReg, orig, calls>>

\* fut = r.unwrap().clone().call(req): call takes &mut self, so the shared
\* reference get returned is invoked through a copy of the adapter.
CallRef(req) ==
  /\ last.op \in {"get", "callref"}
  /\ last.val # None
  /\ Len(calls) < MaxCalls
  /\ LET r == ServiceFn_call(ServiceFn_clone(last.val[1]), req, log)
     IN /\ fut' = Some(r.fut)
        /\ log' = r.log
  /\ calls' = Append(calls, req)
  /\ last' = Op("callref", last.key, last.val, req, last.val[1].f)
  /\ UNCHANGED <<fns, svc, dup, lastReg, orig>>

NextAdapter ==
  \/ \E f \in Callables : New(f)
  \/ \E req \in Paths : Call(req)
  \/ Clone
  \/ \E req \in Paths : CallDup(req)
  \/ Poll

NextRegistry ==
  \/ \E key \in Keys, a \in Adapters : Add(key, a)
  \/ \E key \in Keys : Get(key)
  \/ \E req \in Paths : CallRef(req)
  \/ Poll

Next == NextAdapter \/ NextRegistry

SpecAdapter == Init /\ [][NextAdapter]_vars
SpecRegistry == Init /\ [][NextRegistry]_vars
Spec == Init /\ [][Next]_vars

\* ----------------------------------------------------------- definitions
CallOps == {"call", "calldup", "callref"}

\* f(req) called directly, outside any adapter.
Direct(f, req) == Invoke(f, req, <<>>).out

\* The second result of calling one adapter twice with the same request.
Twice(sf, req) ==
  ServiceFn_call(ServiceFn_call(sf, req, <<>>).sf, req, <<>>).fut.out

Present(m) == {k \in Keys : m[k] # None}

\* ----------------------------------------------------------------- claims
\* C1: the future an adapter's call returns carries exactly the result of
\* calling the wrapped callable directly with the same request, and the
\* adapter keeps the callable as that direct call left it.
C1_PureDelegation ==
  last.op \in CallOps =>
    /\ fut # None
    /\ fut[1].out = Direct(last.f, last.req)
    /\ last.op = "call" => svc[1].f = Invoke(last.f, last.req, <<>>).f
    /\ last.op = "calldup" => dup[1].f = Invoke(last.f, last.req, <<>>).f

C1_Witness ==
  /\ last.op = "call"
  /\ last.f = [kind |-> "once", first |-> FALSE]
  /\ last.req = "/bar"
  /\ fut # None /\ fut[1].out = Ok("again")

\* C2 as stated: when the wrapped callable fails with e, the driven future
\* of the adapter's call resolves to the conversion of e into the boxed type.
C2_ResolvesToConverted ==
  (last.op \in CallOps /\ fut # None /\ fut[1].done
     /\ ~Direct(last.f, last.req).ok) =>
    fut[1].out = Err(Convert(Direct(last.f, last.req).v))

\* C2 amended: when the wrapped callable fails with e, the driven future of
\* the adapter's call resolves to Err(e) with e itself, of the callable's own
\* error type and not converted; and the adapter's future fails only when
\* the callable fails.
C2_ErrorPropagation ==
  (last.op \in CallOps /\ fut # None /\ fut[1].done) =>
    LET d == Direct(last.f, last.req)
    IN /\ ~d.ok => fut[1].out = Err(d.v)
       /\ ~fut[1].out.ok => ~d.ok

C2_Witness ==
  /\ last.op = "call"
  /\ fut # None /\ fut[1].done
  /\ fut[1].out = Err([msg |-> "/foo", boxed |-> FALSE])

\* C3: after add(k, a), get(k) returns a present reference whose adapter,
\* called with any request, gives what a gives; calling it for a request
\* yields what a's callable yields for that request.
C3_RoundTrip ==
  (last.op \in {"get", "callref"} /\ lastReg[last.key] # None) =>
    /\ last.val # None
    /\ \A req \in Paths :
         ServiceFn_call(ServiceFn_clone(last.val[1]), req, <<>>).fut
           = ServiceFn_call(lastReg[last.key][1], req, <<>>).fut
    /\ last.op = "callref" =>
         fut # None /\ fut[1].out = Direct(lastReg[last.key][1].f, last.req)

C3_Witness ==
  /\ last.op = "callref"
  /\ lastReg[last.key] = Some(service_fn([kind |-> "echo", first |-> FALSE]))
  /\ last.req = "/foo"
  /\ fut # None /\ fut[1].done /\ fut[1].out = Ok("/foo")

\* C4: get(k) returns the adapter of the most recent add(k, _), for every
\* key, and add is always possible, whatever the key already holds.
C4_LastWriteWins ==
  /\ \A k \in Keys : ServiceFns_get(fns, k) = lastReg[k]
  /\ last.op = "get" => last.val = lastReg[last.key]
  /\ \A k \in Keys, a \in Adapters : ENABLED Add(k, a)

C4_Witness ==
  /\ last.op = "add"
  /\ last.val # None
  /\ fns[last.key] # None
  /\ fns[last.key] # last.val
  /\ fns[last.key][1].f = last.f

\* C5: a new registry has no entries, and get of a key never passed to add
\* returns None, not a default adapter.
C5_Miss ==
  /\ last.op = "new" => Present(fns) = {}
  /\ \A k \in Keys : lastReg[k] = None => ServiceFns_get(fns, k) = None
  /\ (last.op = "get" /\ lastReg[last.key] = None) => last.val = None

C5_Witness ==
  /\ last.op = "get"
  /\ last.val = None
  /\ lastReg[last.key] = None
  /\ Present(fns) # {}

\* C6: get leaves the registry as it was, and a get repeated right after a
\* get of the same key returns the same result.
C6_LookupReadOnly ==
  [][last'.op = "get" =>
       /\ fns' = fns
       /\ (last.op = "get" /\ last.key = last'.key) => last'.val = last.val]_vars

C6_Witness ==
  /\ last.op = "get"
  /\ last.val # None
  /\ fns[last.key] = last.val
  /\ Cardinality(Present(fns)) = NumKeys

\* C7: a clone wraps a copy of the original's callable, and for a stateless
\* callable the clone's call gives what a second call of the original with
\* the same request gives.
C7_Duplication ==
  /\ last.op = "clone" => dup # None /\ dup[1].f = svc[1].f
  /\ (last.op = "calldup" /\ orig # None /\ orig[1].f \in Stateless) =>
       fut # None /\ fut[1].out = Twice(orig[1], last.req)

C7_Witness ==
  /\ last.op = "calldup"
  /\ orig # None /\ orig[1].f.kind = "fail"
  /\ Len(calls) = 2 /\ calls[1] = calls[2]
  /\ fut # None /\ fut[1].out = Err([msg |-> calls[2], boxed |-> FALSE])

\* C8: the wrapped callables have been invoked exactly once per call of an
\* adapter, with the same requests in the same order, by the time each call
\* returns.
C8_NoBufferingOrRetry == log = calls

C8_Witness ==
  /\ Len(calls) >= 2
  /\ calls[1] # calls[2]
  /\ last.op = "calldup"
  /\ last.f.kind = "fail"

\* C9: only add changes the registry, no present key becomes absent, the
\* present keys are exactly those ever passed to add, and get of such a key
\* returns a present result.
C9_NeverExpire ==
  /\ [][/\ \A k \in Keys : fns[k] # None => fns'[k] # None
        /\ fns' # fns => last'.op = "add"]_vars
  /\ [](/\ Present(fns) = Present(lastReg)
        /\ (last.op = "get" /\ lastReg[last.key] # None) => last.val # None)

C9_Witness ==
  /\ last.op = "get"
  /\ last.val # None
  /\ Present(fns) = Keys
  /\ fut # None

\* C10: add(k, a) leaves the entry of every other key as it was.
C10_AddFrame ==
  [][last'.op = "add" =>
       \A k2 \in Keys \ {last'.key} : fns'[k2] = fns[k2]]_vars

C10_Witness ==
  /\ last.op = "add"
  /\ \E k2 \in Keys \ {last.key} : fns[k2] # None /\ fns[k2] # fns[last.key]

====
